---------------------------- MODULE Spec2Model ----------------------------
(***************************************************************************)
(* Model of the two scripts of ContextAnnotationApp/src/utils:             *)
(*                                                                         *)
(*   events-importer.py  reads a spreadsheet and inserts one event-code    *)
(*                       record per row into the remote table event_codes  *)
(*   signal-fetcher.py   queries the remote table sensor_data for one day  *)
(*                       and two sensor types, decodes the payloads and    *)
(*                       saves one chart per sensor type                   *)
(*                                                                         *)
(* Three specifications share the variables: SpecImporter (a run of the    *)
(* importer), SpecFetcher (a run of the fetcher's __main__) and SpecParse  *)
(* (parse_signals and parse_signals_to_dataframe applied to the same       *)
(* rows).  The variables of the scripts a specification does not run stay  *)
(* at their idle values.                                                   *)
(***************************************************************************)
EXTENDS Integers, Sequences, FiniteSets, TLC

VARIABLES
    \* ---- events-importer.py
    df,            \* the frame read from the spreadsheet: a sequence of rows
    row_i,         \* number of rows of df.iterrows() already consumed
    imp_pc,        \* "idle" | "loop" | "done" | "error"
    insert_calls,  \* the records handed to insert(...).execute(), in call order
    event_codes,   \* the remote table event_codes: the records stored
    imp_exit,      \* exit status of the importer process (-1 while running)
    \* ---- signal-fetcher.py, __main__
    sensor_data,   \* the remote table sensor_data, in the order it returns rows
    date,          \* the date argument (a day number)
    pc,            \* position of __main__
    accel_data,    \* response.data of the accelerometer query
    gyro_data,     \* response.data of the gyroscope query
    accel_df,      \* frame built from accel_data
    gyro_df,       \* frame built from gyro_data
    files,         \* the charts saved by this run, in the order written
    printed,       \* what this run printed, in order
    exit_status,   \* exit status of the fetcher process (-1 while running)
    err_at,        \* the position at which an uncaught exception was raised
    \* ---- signal-fetcher.py, parse_signals / parse_signals_to_dataframe
    data,          \* the rows given to the two parse functions
    ps_pc,         \* "idle" | "loop" | "returned" | "framed"
    ps_i,          \* number of rows parse_signals has consumed
    xs, ys, zs,    \* the three lists parse_signals builds
    ps_log,        \* indexes of the rows parse_signals logged as unparsable
    ps_df          \* result of parse_signals_to_dataframe(data)

importerVars == <<df, row_i, imp_pc, insert_calls, event_codes, imp_exit>>
fetcherVars == <<sensor_data, date, pc, accel_data, gyro_data, accel_df, gyro_df,
                 files, printed, exit_status, err_at>>
parseVars == <<data, ps_pc, ps_i, xs, ys, zs, ps_log, ps_df>>
vars == <<importerVars, fetcherVars, parseVars>>

-----------------------------------------------------------------------------
(* Bounds of the model.                                                    *)

MaxRows == 2       \* rows of the spreadsheet
MaxStored == 3     \* readings stored in sensor_data
MaxData == 2       \* rows handed to the parse functions

RECURSIVE SeqsUpTo(_, _)
SeqsUpTo(S, n) ==
    IF n = 0 THEN {<<>>}
    ELSE LET P == SeqsUpTo(S, n - 1)
         IN  P \cup {Append(p, e) : p \in {q \in P : Len(q) = n - 1}, e \in S}

-----------------------------------------------------------------------------
(* events-importer.py                                                      *)

None == "None"

\* Cell values as pandas hands them to the loop.  "1" and "txt" stand for an
\* ordinary number and string; "NaN" is the float nan of an empty cell,
\* "NaT" the missing value of an empty cell in a date column, "inf" and
\* "-inf" the two infinite floats.
OrdinaryCells == {"1", "txt"}
CellVals == OrdinaryCells \cup {"NaN", "NaT", "inf", "-inf"}

Columns == {"eInd", "eDescriptionENGL", "eDescriptionSLO", "eID",
            "eDescriptionButt", "Notes"}

BaseRow == [c \in Columns |-> "1"]

\* The rows of the model: every column takes every cell value, one column at
\* a time.
SheetRows == {[BaseRow EXCEPT ![c] = v] : c \in Columns, v \in CellVals}

\* pd.isna(v) for a scalar: True for None, nan and NaT.
pd_isna(v) == v \in {None, "NaN", "NaT"}

\* isinstance(v, float) and (v == float("inf") or v == float("-inf"))
is_infinite_float(v) == v \in {"inf", "-inf"}

\* Lines 26-33: the record built from a row.
event_data_of(row) ==
    [e_ind              |-> row["eInd"],
     e_description_engl |-> row["eDescriptionENGL"],
     e_description_slo  |-> row["eDescriptionSLO"],
     e_id               |-> row["eID"],
     e_description_butt |-> row["eDescriptionButt"],
     notes              |-> row["Notes"]]

\* A normalisation that forgets the infinite floats.
NormalizeNaNOnly(event_data) ==
    [k \in DOMAIN event_data |->
        IF pd_isna(event_data[k]) THEN None ELSE event_data[k]]

\* Lines 35-37: replace NaN or infinite values with None.
Normalize(event_data) ==
    [k \in DOMAIN event_data |->
        IF pd_isna(event_data[k]) \/ is_infinite_float(event_data[k])
        THEN None
        ELSE event_data[k]]

\* The record submitted for a row (lines 26-37).
Submitted(row) == Normalize(event_data_of(row))

InitImporterVars ==
    /\ df \in SeqsUpTo(SheetRows, MaxRows)
    /\ row_i = 0
    /\ imp_pc = "loop"
    /\ insert_calls = <<>>
    /\ event_codes = <<>>
    /\ imp_exit = -1

IdleImporter ==
    /\ df = <<>>
    /\ row_i = 0
    /\ imp_pc = "idle"
    /\ insert_calls = <<>>
    /\ event_codes = <<>>
    /\ imp_exit = -1

\* An importer that retries nothing but carries on after a failed insert.
InsertFailsAndContinues ==
    /\ imp_pc = "loop"
    /\ row_i < Len(df)
    /\ insert_calls' = Append(insert_calls, Submitted(df[row_i + 1]))
    /\ row_i' = row_i + 1
    /\ UNCHANGED <<df, imp_pc, event_codes, imp_exit>>

\* An importer that inserts each new record in front of the earlier ones.
InsertRowReversed ==
    /\ imp_pc = "loop"
    /\ row_i < Len(df)
    /\ insert_calls' = <<Submitted(df[row_i + 1])>> \o insert_calls
    /\ event_codes' = <<Submitted(df[row_i + 1])>> \o event_codes
    /\ row_i' = row_i + 1
    /\ UNCHANGED <<df, imp_pc, imp_exit>>

\* Lines 25-38, one iteration whose insert succeeds: the record of the next
\* row is built, normalised, submitted and stored.
InsertRow ==
    /\ imp_pc = "loop"
    /\ row_i < Len(df)
    /\ insert_calls' = Append(insert_calls, Submitted(df[row_i + 1]))
    /\ event_codes' = Append(event_codes, Submitted(df[row_i + 1]))
    /\ row_i' = row_i + 1
    /\ UNCHANGED <<df, imp_pc, imp_exit>>

\* Lines 25-38, one iteration whose insert raises: the call was issued, the
\* table is unchanged, the exception is not caught and ends the process.
InsertFails ==
    /\ imp_pc = "loop"
    /\ row_i < Len(df)
    /\ insert_calls' = Append(insert_calls, Submitted(df[row_i + 1]))
    /\ imp_pc' = "error"
    /\ imp_exit' = 1
    /\ UNCHANGED <<df, row_i, event_codes>>

\* Line 25: iterrows() is exhausted; the script ends.
ImporterEnds ==
    /\ imp_pc = "loop"
    /\ row_i = Len(df)
    /\ imp_pc' = "done"
    /\ imp_exit' = 0
    /\ UNCHANGED <<df, row_i, insert_calls, event_codes>>

-----------------------------------------------------------------------------
(* signal-fetcher.py: payloads and their decoding                          *)

\* A JSON object is a set of <<key, value>> pairs with distinct keys.
Objects ==
    (SUBSET {<<"x", 1>>, <<"y", 2>>, <<"z", 3>>}) \cup {{<<"w", 4>>}}

\* What row.get("data") can be.  t is the Python type of the value:
\*   "none"  None (the key is absent or the column is null)
\*   "dict"  an object already decoded by the client, d its content
\*   "str"   a string; j tells what the text is: "object" (the JSON text of
\*           the object d), "scalar" (valid JSON that is no object, as "5"),
\*           "invalid" (no JSON at all) or "empty" (the empty string)
\*   "list"  a non-empty JSON array already decoded by the client
NonePayload == [t |-> "none", j |-> "-", d |-> {}]
DictPayload(o) == [t |-> "dict", j |-> "-", d |-> o]
StrObjectPayload(o) == [t |-> "str", j |-> "object", d |-> o]
StrPayload(kind) == [t |-> "str", j |-> kind, d |-> {}]
ListPayload == [t |-> "list", j |-> "-", d |-> {}]

Payloads ==
    {NonePayload, ListPayload}
        \cup {DictPayload(o) : o \in Objects}
        \cup {StrObjectPayload(o) : o \in Objects}
        \cup {StrPayload(k) : k \in {"scalar", "invalid", "empty"}}

\* Python truth value of a payload, as tested by "if signal_json:".
Truthy(p) ==
    CASE p.t = "none" -> FALSE
      [] p.t = "dict" -> p.d # {}
      [] p.t = "str"  -> p.j # "empty"
      [] OTHER        -> TRUE

\* isinstance(signal_json, dict)
IsDict(p) == p.t = "dict"

\* json.loads(p) raises: TypeError unless p is a string, JSONDecodeError
\* unless the string is JSON text.
JsonLoadsRaises(p) == p.t # "str" \/ p.j \in {"invalid", "empty"}

\* json.loads(p) where it returns: the object, or a value that is no object.
JsonLoads(p) ==
    IF p.j = "object" THEN DictPayload(p.d) ELSE [t |-> "scalar", j |-> "-", d |-> {}]

\* A decoding that forgets json.loads and uses the payload as it is.
SignalUndecoded(p) == p

\* Lines 47-50 (and 64-67): the value bound to signal.
SignalOf(p) == IF IsDict(p) THEN p ELSE JsonLoads(p)

\* Lines 47-53 (and 64-72) raise for the truthy payload p: json.loads raises,
\* or signal has no method get.
DecodeRaises(p) ==
    \/ ~IsDict(p) /\ JsonLoadsRaises(p)
    \/ ~IsDict(SignalOf(p))

\* signal.get(key, default) on a dict
Get(signal, key, default) ==
    IF \E kv \in signal.d : kv[1] = key
    THEN (CHOOSE kv \in signal.d : kv[1] = key)[2]
    ELSE default

-----------------------------------------------------------------------------
(* signal-fetcher.py: the two queries                                      *)

\* Lines 17 and 29: the two sensor type ids; "other" is any other sensor.
ACCEL == "3b48eed5-6ece-4eb8-8c88-b5e645839385"
GYRO == "d4ad2653-b430-40c2-9f47-bdc140119c57"

\* A timestamp is <<day, hour, minute, second, tenth of a second>>.
Dates == {1, 2}
Noon == <<1, 12, 0, 0, 0>>
Timestamps ==
    {<<0, 23, 59, 59, 5>>,
     <<1, 0, 0, 0, 0>>,
     Noon,
     <<1, 23, 59, 58, 5>>,
     <<1, 23, 59, 59, 0>>,
     <<1, 23, 59, 59, 5>>,
     <<2, 0, 0, 0, 0>>}

\* Timestamp order, as the service compares them: component by component.
RECURSIVE TsLess(_, _)
TsLess(a, b) ==
    /\ a # <<>>
    /\ \/ Head(a) < Head(b)
       \/ Head(a) = Head(b) /\ TsLess(Tail(a), Tail(b))

\* f"{date_str}T00:00:00" and f"{date_str}T23:59:59" (lines 22-23)
DayStart(date_str) == <<date_str, 0, 0, 0, 0>>
DayEnd(date_str) == <<date_str, 23, 59, 59, 0>>

\* A filter whose upper bound is inclusive.
RowMatchesInclusiveEnd(r, sensor_type_id, date_str) ==
    /\ r.sensor_type_id = sensor_type_id
    /\ ~TsLess(r.timestamp, DayStart(date_str))
    /\ ~TsLess(DayEnd(date_str), r.timestamp)

\* Lines 21-23: .eq("sensor_type_id", ...), timestamp gte day start,
\* timestamp lt day end.
RowMatches(r, sensor_type_id, date_str) ==
    /\ r.sensor_type_id = sensor_type_id
    /\ ~TsLess(r.timestamp, DayStart(date_str))
    /\ TsLess(r.timestamp, DayEnd(date_str))

\* Lines 18-26: the rows of the table that the query selects, in the order
\* the service returns them (the query asks for no order).
RECURSIVE Select(_, _, _)
Select(table, sensor_type_id, date_str) ==
    IF table = <<>> THEN <<>>
    ELSE (IF RowMatches(Head(table), sensor_type_id, date_str)
          THEN <<Head(table)>> ELSE <<>>)
         \o Select(Tail(table), sensor_type_id, date_str)

fetch_accelerometer_data(table, date_str) == Select(table, ACCEL, date_str)
fetch_gyroscope_data(table, date_str) == Select(table, GYRO, date_str)

\* The stored readings of the model: accelerometer and gyroscope readings
\* with every kind of payload at noon of day 1, accelerometer readings with
\* a full payload at every timestamp, a gyroscope reading at 23:59:59, and
\* one reading of another sensor.
FullObject == {<<"x", 1>>, <<"y", 2>>, <<"z", 3>>}
FetcherPayloads ==
    {NonePayload, DictPayload({}), DictPayload(FullObject),
     StrObjectPayload({<<"x", 1>>, <<"y", 2>>}), StrPayload("invalid")}
Reading(s, ts, p) == [sensor_type_id |-> s, timestamp |-> ts, data |-> p]
Readings ==
    {Reading(s, Noon, p) : s \in {ACCEL, GYRO}, p \in FetcherPayloads}
        \cup {Reading(ACCEL, ts, DictPayload(FullObject)) : ts \in Timestamps}
        \cup {Reading(GYRO, <<1, 23, 59, 59, 0>>, DictPayload(FullObject)),
              Reading("other", Noon, DictPayload(FullObject))}

-----------------------------------------------------------------------------
(* signal-fetcher.py: parse_signals_to_dataframe and the chart             *)

Channels == {"x", "y", "z"}

\* Lines 68-73: the record appended for a row whose payload decodes.
RecordOf(row) ==
    [x |-> Get(SignalOf(row.data), "x", 0),
     y |-> Get(SignalOf(row.data), "y", 0),
     z |-> Get(SignalOf(row.data), "z", 0),
     timestamp |-> row.timestamp]

\* A loop that, like parse_signals, lets no decoding error out.
FrameNeverRaises(rows) == FALSE

\* The loop of lines 61-73 raises: some row has a truthy payload whose
\* decoding raises; nothing catches it.
FrameRaises(rows) ==
    \E i \in 1..Len(rows) : Truthy(rows[i].data) /\ DecodeRaises(rows[i].data)

\* Lines 60-73 when no row raises: one record per row with a truthy payload,
\* in the order of the rows.
RECURSIVE FrameRecords(_)
FrameRecords(rows) ==
    IF rows = <<>> THEN <<>>
    ELSE (IF Truthy(Head(rows).data) THEN <<RecordOf(Head(rows))>> ELSE <<>>)
         \o FrameRecords(Tail(rows))

\* pd.DataFrame(records): the columns are the keys of the records, so a frame
\* built from no record has no column.
DataFrame(records) ==
    [columns |-> IF records = <<>> THEN {} ELSE Channels \cup {"timestamp"},
     records |-> records]

NoFrame == DataFrame(<<>>)

\* Lines 59-74, when the loop does not raise.
parse_signals_to_dataframe(rows) == DataFrame(FrameRecords(rows))

\* The column of a frame, in row order (what plt.plot draws against df.index).
Column(frame, c) == [i \in 1..Len(frame.records) |-> frame.records[i][c]]

\* Lines 78-80 raise KeyError: the frame lacks a channel column.
PlotRaises(frame) == ~(Channels \subseteq frame.columns)

\* Lines 77-86: the file savefig writes.
Chart(frame, title, filename) ==
    [filename |-> filename, title |-> title,
     X |-> Column(frame, "x"), Y |-> Column(frame, "y"), Z |-> Column(frame, "z")]

ACCEL_PNG == "accel_signal_plot.png"
GYRO_PNG == "gyro_signal_plot.png"
NoAccelMessage == "No data found for the given date."
NoGyroMessage == "No gyroscope data found for the given date."
SavedMessage(filename) == <<"Plot saved as", filename>>

-----------------------------------------------------------------------------
(* signal-fetcher.py: __main__                                             *)

InitFetcherVars ==
    /\ sensor_data \in SeqsUpTo(Readings, MaxStored)
    /\ date \in Dates
    /\ pc = "fetch_accel"
    /\ accel_data = <<>>
    /\ gyro_data = <<>>
    /\ accel_df = NoFrame
    /\ gyro_df = NoFrame
    /\ files = <<>>
    /\ printed = <<>>
    /\ exit_status = -1
    /\ err_at = "-"

IdleFetcher ==
    /\ sensor_data = <<>>
    /\ date = 1
    /\ pc = "idle"
    /\ accel_data = <<>>
    /\ gyro_data = <<>>
    /\ accel_df = NoFrame
    /\ gyro_df = NoFrame
    /\ files = <<>>
    /\ printed = <<>>
    /\ exit_status = -1
    /\ err_at = "-"

\* An uncaught exception at the current position: the process ends with a
\* traceback and status 1.
Raise ==
    /\ err_at' = pc
    /\ pc' = "error"
    /\ exit_status' = 1

\* exit(0)
Exit0 ==
    /\ pc' = "exited"
    /\ exit_status' = 0
    /\ err_at' = err_at

\* Line 94
FetchAccel ==
    /\ pc = "fetch_accel"
    /\ accel_data' = fetch_accelerometer_data(sensor_data, date)
    /\ pc' = "fetch_gyro"
    /\ UNCHANGED <<sensor_data, date, gyro_data, accel_df, gyro_df, files,
                   printed, exit_status, err_at>>

\* Line 95
FetchGyro ==
    /\ pc = "fetch_gyro"
    /\ gyro_data' = fetch_gyroscope_data(sensor_data, date)
    /\ pc' = "check_accel"
    /\ UNCHANGED <<sensor_data, date, accel_data, accel_df, gyro_df, files,
                   printed, exit_status, err_at>>

\* Lines 25 and 37: query.execute() raises (the service cannot be reached).
QueryFails ==
    /\ pc \in {"fetch_accel", "fetch_gyro"}
    /\ Raise
    /\ UNCHANGED <<sensor_data, date, accel_data, gyro_data, accel_df, gyro_df,
                   files, printed>>

\* Lines 96-98
CheckAccel ==
    /\ pc = "check_accel"
    /\ IF accel_data = <<>>
       THEN /\ printed' = Append(printed, NoAccelMessage)
            /\ Exit0
       ELSE /\ pc' = "check_gyro"
            /\ UNCHANGED <<printed, exit_status, err_at>>
    /\ UNCHANGED <<sensor_data, date, accel_data, gyro_data, accel_df, gyro_df,
                   files>>

\* A check that lets an empty gyroscope result through.
CheckGyroNever ==
    /\ pc = "check_gyro"
    /\ pc' = "parse_accel"
    /\ UNCHANGED <<sensor_data, date, accel_data, gyro_data, accel_df, gyro_df,
                   files, printed, exit_status, err_at>>

\* Lines 99-101
CheckGyro ==
    /\ pc = "check_gyro"
    /\ IF gyro_data = <<>>
       THEN /\ printed' = Append(printed, NoGyroMessage)
            /\ Exit0
       ELSE /\ pc' = "parse_accel"
            /\ UNCHANGED <<printed, exit_status, err_at>>
    /\ UNCHANGED <<sensor_data, date, accel_data, gyro_data, accel_df, gyro_df,
                   files>>

\* Line 103
ParseAccel ==
    /\ pc = "parse_accel"
    /\ IF FrameRaises(accel_data)
       THEN /\ Raise
            /\ UNCHANGED accel_df
       ELSE /\ accel_df' = parse_signals_to_dataframe(accel_data)
            /\ pc' = "plot_accel"
            /\ UNCHANGED <<exit_status, err_at>>
    /\ UNCHANGED <<sensor_data, date, accel_data, gyro_data, gyro_df, files,
                   printed>>

\* Line 104
PlotAccel ==
    /\ pc = "plot_accel"
    /\ IF PlotRaises(accel_df)
       THEN /\ Raise
            /\ UNCHANGED <<files, printed>>
       ELSE /\ files' = Append(files, Chart(accel_df, "Accelerometer Signal", ACCEL_PNG))
            /\ printed' = Append(printed, SavedMessage(ACCEL_PNG))
            /\ pc' = "parse_gyro"
            /\ UNCHANGED <<exit_status, err_at>>
    /\ UNCHANGED <<sensor_data, date, accel_data, gyro_data, accel_df, gyro_df>>

\* Line 106
ParseGyro ==
    /\ pc = "parse_gyro"
    /\ IF FrameRaises(gyro_data)
       THEN /\ Raise
            /\ UNCHANGED gyro_df
       ELSE /\ gyro_df' = parse_signals_to_dataframe(gyro_data)
            /\ pc' = "plot_gyro"
            /\ UNCHANGED <<exit_status, err_at>>
    /\ UNCHANGED <<sensor_data, date, accel_data, gyro_data, accel_df, files,
                   printed>>

\* Line 107, and the end of the script
PlotGyro ==
    /\ pc = "plot_gyro"
    /\ IF PlotRaises(gyro_df)
       THEN /\ Raise
            /\ UNCHANGED <<files, printed>>
       ELSE /\ files' = Append(files, Chart(gyro_df, "Gyroscope Signal", GYRO_PNG))
            /\ printed' = Append(printed, SavedMessage(GYRO_PNG))
            /\ pc' = "done"
            /\ exit_status' = 0
            /\ UNCHANGED err_at
    /\ UNCHANGED <<sensor_data, date, accel_data, gyro_data, accel_df, gyro_df>>

-----------------------------------------------------------------------------
(* signal-fetcher.py: parse_signals, row by row                            *)

DataRows == {Reading(ACCEL, Noon, p) : p \in Payloads}

InitParseVars ==
    /\ data \in SeqsUpTo(DataRows, MaxData)
    /\ ps_pc = "loop"
    /\ ps_i = 0
    /\ xs = <<>>
    /\ ys = <<>>
    /\ zs = <<>>
    /\ ps_log = <<>>
    /\ ps_df = [raised |-> FALSE, frame |-> NoFrame]

IdleParse ==
    /\ data = <<>>
    /\ ps_pc = "idle"
    /\ ps_i = 0
    /\ xs = <<>>
    /\ ys = <<>>
    /\ zs = <<>>
    /\ ps_log = <<>>
    /\ ps_df = [raised |-> FALSE, frame |-> NoFrame]

\* A loop body without the try: the first payload that fails to decode ends
\* the loop.
ParseSignalsRowNoTry ==
    /\ ps_pc = "loop"
    /\ ps_i < Len(data)
    /\ LET p == data[ps_i + 1].data
       IN  IF Truthy(p) /\ DecodeRaises(p)
           THEN /\ ps_pc' = "returned"
                /\ UNCHANGED <<xs, ys, zs, ps_log, ps_i>>
           ELSE /\ IF Truthy(p)
                   THEN /\ xs' = Append(xs, Get(SignalOf(p), "x", 0))
                        /\ ys' = Append(ys, Get(SignalOf(p), "y", 0))
                        /\ zs' = Append(zs, Get(SignalOf(p), "z", 0))
                   ELSE UNCHANGED <<xs, ys, zs>>
                /\ ps_i' = ps_i + 1
                /\ UNCHANGED <<ps_log, ps_pc>>
    /\ UNCHANGED <<data, ps_df>>

\* Lines 42-55, one iteration: a falsy payload is passed over; a payload
\* whose decoding raises (at json.loads or at the first signal.get, so before
\* any append) is logged; otherwise the three channels are appended.
ParseSignalsRow ==
    /\ ps_pc = "loop"
    /\ ps_i < Len(data)
    /\ LET p == data[ps_i + 1].data
       IN  IF ~Truthy(p)
           THEN UNCHANGED <<xs, ys, zs, ps_log>>
           ELSE IF DecodeRaises(p)
                THEN /\ ps_log' = Append(ps_log, ps_i + 1)
                     /\ UNCHANGED <<xs, ys, zs>>
                ELSE /\ xs' = Append(xs, Get(SignalOf(p), "x", 0))
                     /\ ys' = Append(ys, Get(SignalOf(p), "y", 0))
                     /\ zs' = Append(zs, Get(SignalOf(p), "z", 0))
                     /\ UNCHANGED ps_log
    /\ ps_i' = ps_i + 1
    /\ UNCHANGED <<data, ps_pc, ps_df>>

\* Line 57
ParseSignalsReturn ==
    /\ ps_pc = "loop"
    /\ ps_i = Len(data)
    /\ ps_pc' = "returned"
    /\ UNCHANGED <<data, ps_i, xs, ys, zs, ps_log, ps_df>>

\* parse_signals_to_dataframe(data), lines 59-74, on the same rows
ParseToDataframe ==
    /\ ps_pc = "returned"
    /\ ps_df' = IF FrameRaises(data)
                THEN [raised |-> TRUE, frame |-> NoFrame]
                ELSE [raised |-> FALSE, frame |-> parse_signals_to_dataframe(data)]
    /\ ps_pc' = "framed"
    /\ UNCHANGED <<data, ps_i, xs, ys, zs, ps_log>>

-----------------------------------------------------------------------------
(* The three specifications                                                *)

InitImporter == InitImporterVars /\ IdleFetcher /\ IdleParse
NextImporter ==
    \/ InsertRow /\ UNCHANGED <<fetcherVars, parseVars>>
    \/ InsertFails /\ UNCHANGED <<fetcherVars, parseVars>>
    \/ ImporterEnds /\ UNCHANGED <<fetcherVars, parseVars>>
SpecImporter == InitImporter /\ [][NextImporter]_vars

InitFetcher == IdleImporter /\ InitFetcherVars /\ IdleParse
NextFetcher ==
    \/ FetchAccel /\ UNCHANGED <<importerVars, parseVars>>
    \/ FetchGyro /\ UNCHANGED <<importerVars, parseVars>>
    \/ QueryFails /\ UNCHANGED <<importerVars, parseVars>>
    \/ CheckAccel /\ UNCHANGED <<importerVars, parseVars>>
    \/ CheckGyro /\ UNCHANGED <<importerVars, parseVars>>
    \/ ParseAccel /\ UNCHANGED <<importerVars, parseVars>>
    \/ PlotAccel /\ UNCHANGED <<importerVars, parseVars>>
    \/ ParseGyro /\ UNCHANGED <<importerVars, parseVars>>
    \/ PlotGyro /\ UNCHANGED <<importerVars, parseVars>>
SpecFetcher == InitFetcher /\ [][NextFetcher]_vars

InitParse == IdleImporter /\ IdleFetcher /\ InitParseVars
NextParse ==
    \/ ParseSignalsRow /\ UNCHANGED <<importerVars, fetcherVars>>
    \/ ParseSignalsReturn /\ UNCHANGED <<importerVars, fetcherVars>>
    \/ ParseToDataframe /\ UNCHANGED <<importerVars, fetcherVars>>
SpecParse == InitParse /\ [][NextParse]_vars

-----------------------------------------------------------------------------
(* Claims about events-importer.py (checked under SpecImporter)            *)

\* The column each field of a submitted record is read from.
ColumnOf ==
    [e_ind              |-> "eInd",
     e_description_engl |-> "eDescriptionENGL",
     e_description_slo  |-> "eDescriptionSLO",
     e_id               |-> "eID",
     e_description_butt |-> "eDescriptionButt",
     notes              |-> "Notes"]
Fields == DOMAIN ColumnOf

\* Some insert has failed: a call was issued whose record was not stored.
InsertFailed == Len(insert_calls) > Len(event_codes)

\* C1: while every insert succeeds, the importer has issued exactly one
\* insert call per row consumed, the i-th call carrying the record built from
\* the i-th row of the sheet; it can always take its next step, and when it
\* ends it has issued exactly N calls for the N rows and exits with status 0.
C1_OneInsertPerRowInOrder ==
    ~InsertFailed =>
        /\ imp_pc \in {"loop", "done"}
        /\ Len(insert_calls) = row_i
        /\ \A k \in 1..Len(insert_calls) :
              /\ DOMAIN insert_calls[k] = Fields
              /\ \A f \in Fields :
                    insert_calls[k][f]
                        = IF df[k][ColumnOf[f]] \in OrdinaryCells
                          THEN df[k][ColumnOf[f]] ELSE None
        /\ imp_pc = "loop" => ENABLED NextImporter
        /\ imp_pc = "done" =>
              /\ Len(insert_calls) = Len(df)
              /\ event_codes = insert_calls
              /\ imp_exit = 0

\* C1 witness: a run over two different rows has ended normally after two
\* insert calls.
C1_Witness ==
    /\ imp_pc = "done"
    /\ Len(df) = 2
    /\ df[1] # df[2]
    /\ Len(insert_calls) = 2
    /\ insert_calls[1] # insert_calls[2]

\* C2 as claimed: every field of every submitted record is null when the
\* cell is NaN, +infinity or -infinity and is the cell's value otherwise, and
\* no submitted field is NaN or infinite.
C2_AsClaimed ==
    \A k \in 1..Len(insert_calls) : \A f \in Fields :
        /\ insert_calls[k][f]
              = IF df[k][ColumnOf[f]] \in {"NaN", "inf", "-inf"}
                THEN None ELSE df[k][ColumnOf[f]]
        /\ insert_calls[k][f] \notin {"NaN", "inf", "-inf"}

\* C2 amended: every field of every submitted record is null when the cell
\* is a missing value of pandas (NaN, or NaT, the missing date), +infinity or
\* -infinity, and is the cell's value otherwise; no submitted field is NaN,
\* NaT or infinite.
C2_NullForMissingOrInfinite ==
    \A k \in 1..Len(insert_calls) : \A f \in Fields :
        /\ insert_calls[k][f]
              = IF df[k][ColumnOf[f]] \in {"NaN", "NaT", "inf", "-inf"}
                THEN None ELSE df[k][ColumnOf[f]]
        /\ insert_calls[k][f] \notin {"NaN", "NaT", "inf", "-inf"}

\* C2 witness: the second row has a NaN Notes cell; its record was submitted
\* with notes null and the other fields as in the sheet, and the first row's
\* record, with an infinite eID, was submitted with e_id null.
C2_Witness ==
    /\ Len(insert_calls) = 2
    /\ df[2]["Notes"] = "NaN"
    /\ insert_calls[2].notes = None
    /\ insert_calls[2].e_ind = "1"
    /\ df[1]["eID"] = "-inf"
    /\ insert_calls[1].e_id = None

\* C3: once an insert has failed (for row k), the process has ended with a
\* non-zero status, exactly one call was issued for row k and none for a
\* later row, the table holds exactly the records of rows 1..k-1, and
\* nothing more happens.
C3_FailFast ==
    InsertFailed =>
        /\ imp_pc = "error"
        /\ imp_exit # 0
        /\ Len(insert_calls) = Len(event_codes) + 1
        /\ Len(insert_calls) <= Len(df)
        /\ event_codes = [j \in 1..Len(insert_calls) - 1 |-> Submitted(df[j])]
        /\ ~ENABLED NextImporter

\* C3 witness: the insert of the second of two rows failed; the first row's
\* record is stored.
C3_Witness ==
    /\ imp_pc = "error"
    /\ Len(df) = 2
    /\ Len(insert_calls) = 2
    /\ event_codes = <<Submitted(df[1])>>

-----------------------------------------------------------------------------
(* Claims about signal-fetcher.py, __main__ (checked under SpecFetcher)    *)

\* Both queries have returned.
BothFetched ==
    /\ pc \notin {"fetch_accel", "fetch_gyro"}
    /\ err_at \notin {"fetch_accel", "fetch_gyro"}

\* The process has ended.
Terminated == pc \in {"done", "exited", "error"}

\* This run has saved a chart under the name.
Written(filename) == \E i \in 1..Len(files) : files[i].filename = filename

\* A payload that is present but does not decode to an object.
Malformed(p) == p.t = "list" \/ (p.t = "str" /\ p.j \in {"scalar", "invalid"})
SomeMalformed(rows) == \E i \in 1..Len(rows) : Malformed(rows[i].data)

\* C4: when the accelerometer query or the gyroscope query has returned no
\* row, the run never gets past the two checks: it writes no chart, raises
\* nothing, and ends only by printing the message of the first empty result
\* and exiting with status 0.
C4_NoChartWithoutData ==
    (BothFetched /\ (accel_data = <<>> \/ gyro_data = <<>>)) =>
        /\ files = <<>>
        /\ pc \in {"check_accel", "check_gyro", "exited"}
        /\ pc = "check_gyro" => accel_data # <<>>
        /\ pc = "exited" =>
              /\ exit_status = 0
              /\ printed = <<IF accel_data = <<>> THEN NoAccelMessage
                             ELSE NoGyroMessage>>

\* C4 witness: the accelerometer query returned rows, the gyroscope query
\* none; the run has exited with status 0 and no chart.
C4_Witness ==
    /\ pc = "exited"
    /\ accel_data # <<>>
    /\ gyro_data = <<>>
    /\ files = <<>>
    /\ exit_status = 0
    /\ printed = <<NoGyroMessage>>

\* C5 as claimed, for result sets free of malformed payloads: when both
\* queries have returned at least one row, the run ends with status 0 having
\* saved the accelerometer chart and then the gyroscope chart.
C5_AsClaimed ==
    (/\ BothFetched
     /\ accel_data # <<>>
     /\ gyro_data # <<>>
     /\ ~SomeMalformed(accel_data)
     /\ ~SomeMalformed(gyro_data)
     /\ Terminated) =>
        /\ pc = "done"
        /\ exit_status = 0
        /\ Len(files) = 2
        /\ files[1].filename = ACCEL_PNG
        /\ files[2].filename = GYRO_PNG

\* Tenths of a second since the start of the timestamp's day.
TenthsOfDay(ts) == ((ts[2] * 60 + ts[3]) * 60 + ts[4]) * 10 + ts[5]

\* The window of the claim: date 00:00:00 <= t < date 23:59:59.
InClaimedWindow(ts, d) ==
    /\ ts[1] = d
    /\ 0 <= TenthsOfDay(ts)
    /\ TenthsOfDay(ts) < ((23 * 60 + 59) * 60 + 59) * 10

ClaimedSelection(sensor_type_id) ==
    SelectSeq(sensor_data,
              LAMBDA r : /\ r.sensor_type_id = sensor_type_id
                         /\ InClaimedWindow(r.timestamp, date))

\* C7: the rows each query returns are exactly the stored readings of its
\* sensor type whose timestamp t satisfies date 00:00:00 <= t < date
\* 23:59:59.
C7_QueryWindow ==
    /\ pc \notin {"fetch_accel"} /\ err_at # "fetch_accel"
          => accel_data = ClaimedSelection(ACCEL)
    /\ BothFetched => gyro_data = ClaimedSelection(GYRO)

\* C7 witness: the table holds accelerometer readings at 00:00:00 and at
\* 23:59:59 of the day asked for and a gyroscope reading at noon; the first
\* query returned the reading at 00:00:00 alone, the second the gyroscope
\* reading.
C7_Witness ==
    /\ BothFetched
    /\ date = 1
    /\ \E i \in 1..Len(sensor_data) :
          /\ sensor_data[i].sensor_type_id = ACCEL
          /\ sensor_data[i].timestamp = <<1, 23, 59, 59, 0>>
    /\ Len(accel_data) = 1
    /\ accel_data[1].timestamp = <<1, 0, 0, 0, 0>>
    /\ Len(gyro_data) = 1
    /\ gyro_data[1].timestamp = Noon

\* The rows of a frame are in timestamp order.
TimeOrdered(frame) ==
    \A i \in 1..Len(frame.records) - 1 :
        ~TsLess(frame.records[i + 1].timestamp, frame.records[i].timestamp)

\* C8 as claimed: whatever the order in which the service returns the rows,
\* the frame built for each sensor type is in timestamp order.
C8_AsClaimed == TimeOrdered(accel_df) /\ TimeOrdered(gyro_df)

\* The run reached the frames: both results are non-empty.
ReachedFrames == BothFetched /\ accel_data # <<>> /\ gyro_data # <<>>

-----------------------------------------------------------------------------
(* Claims about parse_signals and parse_signals_to_dataframe (checked      *)
(* under SpecParse)                                                        *)

\* The payload is a structured object or a string encoding one.
Structured(p) == p.t = "dict" \/ (p.t = "str" /\ p.j = "object")

\* The payload is empty: absent, the empty object or the empty string.
Empty(p) == p.t = "none" \/ (p.t = "dict" /\ p.d = {}) \/ (p.t = "str" /\ p.j = "empty")

\* The channel of a structured payload: its value, or 0 when it is absent.
ChannelOf(p, c) ==
    IF \A v \in {1, 2, 3, 4} : <<c, v>> \notin p.d
    THEN 0
    ELSE CHOOSE v \in {1, 2, 3, 4} : <<c, v>> \in p.d

\* The rows among the first n whose payload satisfies the test.
RowsWhere(n, Test(_)) == SelectSeq(SubSeq(data, 1, n), LAMBDA r : Test(r.data))
ChannelsWhere(n, Test(_), c) ==
    [i \in 1..Len(RowsWhere(n, Test)) |-> ChannelOf(RowsWhere(n, Test)[i].data, c)]

\* C6 as claimed: once both functions have run, each has produced, for every
\* row whose payload is a structured object or a string encoding one, the
\* triple (x, y, z) of the payload with 0 for an absent channel, in row
\* order: the lists of parse_signals hold exactly those triples, and so do
\* the records of the frame whenever parse_signals_to_dataframe returns.
C6_AsClaimed ==
    ps_pc = "framed" =>
        /\ xs = ChannelsWhere(Len(data), Structured, "x")
        /\ ys = ChannelsWhere(Len(data), Structured, "y")
        /\ zs = ChannelsWhere(Len(data), Structured, "z")
        /\ ~ps_df.raised =>
              /\ Column(ps_df.frame, "x") = ChannelsWhere(Len(data), Structured, "x")
              /\ Column(ps_df.frame, "y") = ChannelsWhere(Len(data), Structured, "y")
              /\ Column(ps_df.frame, "z") = ChannelsWhere(Len(data), Structured, "z")

\* A payload that is not empty and decodes to an object.
Decodable(p) == Structured(p) /\ ~Empty(p)

\* C6 amended: once both functions have run, each has produced, for every
\* row whose payload is a non-empty structured object or a string encoding a
\* structured object, the triple (x, y, z) of the payload with 0 for an absent
\* channel and the payload's value for a present one, in row order: the lists
\* of parse_signals hold exactly those triples, and so do the records of the
\* frame whenever parse_signals_to_dataframe returns.
C6_DecodedTriples ==
    ps_pc = "framed" =>
        /\ xs = ChannelsWhere(Len(data), Decodable, "x")
        /\ ys = ChannelsWhere(Len(data), Decodable, "y")
        /\ zs = ChannelsWhere(Len(data), Decodable, "z")
        /\ ~ps_df.raised =>
              /\ Column(ps_df.frame, "x") = xs
              /\ Column(ps_df.frame, "y") = ys
              /\ Column(ps_df.frame, "z") = zs

\* C6 witness: both functions have decoded an object without "z" followed by
\* a string encoding {"x":1,"y":2,"z":3} into (1,2,0) and (1,2,3).
C6_Witness ==
    /\ ps_pc = "framed"
    /\ Len(data) = 2
    /\ data[1].data = DictPayload({<<"x", 1>>, <<"y", 2>>})
    /\ data[2].data = StrObjectPayload(FullObject)
    /\ xs = <<1, 1>> /\ ys = <<2, 2>> /\ zs = <<0, 3>>
    /\ ~ps_df.raised
    /\ Column(ps_df.frame, "z") = <<0, 3>>

\* The indexes among the first n rows whose payload fails to decode.
RECURSIVE MalformedIndexes(_)
MalformedIndexes(n) ==
    IF n = 0 THEN <<>>
    ELSE MalformedIndexes(n - 1)
             \o (IF Malformed(data[n].data) THEN <<n>> ELSE <<>>)

\* C9: at every point of parse_signals the three lists have the same length,
\* the number of rows consumed so far with a non-empty decodable payload, and
\* entry i of each list is the channel of the i-th such row; the rows logged
\* are exactly those consumed whose payload fails to decode; the loop stops
\* only after the last row, so a failing row never ends it.
C9_ParseSignalsSkipsAndContinues ==
    ps_pc # "idle" =>
        /\ Len(xs) = Len(ys) /\ Len(ys) = Len(zs)
        /\ Len(xs) = Len(RowsWhere(ps_i, Decodable))
        /\ xs = ChannelsWhere(ps_i, Decodable, "x")
        /\ ys = ChannelsWhere(ps_i, Decodable, "y")
        /\ zs = ChannelsWhere(ps_i, Decodable, "z")
        /\ ps_log = MalformedIndexes(ps_i)
        /\ ps_pc = "loop" => ENABLED NextParse
        /\ ps_pc # "loop" => ps_i = Len(data)

\* C9 witness: parse_signals has returned from a malformed row followed by a
\* decodable one: the first is logged, the second fills the lists.
C9_Witness ==
    /\ ps_pc = "returned"
    /\ Len(data) = 2
    /\ Malformed(data[1].data)
    /\ Decodable(data[2].data)
    /\ ps_log = <<1>>
    /\ Len(xs) = 1 /\ Len(ys) = 1 /\ Len(zs) = 1

=============================================================================
